---- MODULE Spec2Model ----
(***************************************************************************)
(* Model of the algorithmic core of sc2-serializer:                        *)
(*   - ReplaySampler / BasicSampler / SQLSampler  (sc2_serializer/sampler) *)
(*   - find_closest_indices                (sc2_serializer/example, api)   *)
(*   - split_and_download                  (api/download)                  *)
(*   - the partition balancer              (scripts/make_partitions)       *)
(* Each component has its own specification over the shared variables;     *)
(* the variables of the other components stay at their idle values.        *)
(***************************************************************************)
EXTENDS Integers, Sequences, FiniteSets, TLC

VARIABLES
    \* ---- sampler.py
    sampler,              \* "BasicSampler", "SQLSampler" or "SC2Replay" (replay_sql.py)
    shard_sizes,          \* db_interface.size() of every .SC2Replays file of the folder
    filter_query,         \* SQLSampler: the filter list is "valid" or "malformed"
    n_rows,               \* rows selected by self.filter_query (SQLSampler)
    train_ratio,          \* <<numerator, denominator>> of self.train_ratio
    is_train,             \* self.is_train
    spc,                  \* "new", "ready", or the exception __init__ raised (with its site)
    accumulated_replays,  \* self._accumulated_replays, indexed from 0
    start_idx,            \* self.start_idx
    n_replays,            \* self.n_replays
    index,                \* argument of the last sample() call
    result,               \* outcome of the last sample() call
    record,               \* dict returned by the last SC2Replay.__getitem__ call
    \* ---- find_closest_indices (example.py, api/utils.py)
    variant,              \* "example" (sc2_serializer/example.py), "reader"
                          \* (sc2_replay_reader/example.py) or "utils" (api/utils.py)
    options,              \* the timeline (gameStep of every recorded step)
    targets,              \* the grid handed to find_closest_indices
    nearest,              \* the result tensor, entries are 0-based timeline indices or -1
    tgt_idx,              \* 0-based position of the next unresolved grid point
    idx,                  \* 0-based position of the current pair (options[idx], options[idx+1])
    apc,                  \* "call", "loop", "done" (returned) or the exception raised
    outputs_list,         \* load_from_parser: the list built for one feature key
    valid,                \* load_from_parser: outputs["valid"]
    lpc,                  \* load_from_parser: "call", "returned" or the exception raised
    tested,               \* <<idx, tgt_idx>> of every test the current call made of a
                          \* pair against a grid point
    history,              \* [options, targets, apc, nearest] of the calls made before
    stage,                \* "first" call, a call "between", or the first call "again"
    \* ---- split_and_download (api/download.py)
    links_and_sizes,      \* the pool: sequence of <<link, size>>, shuffled in place
    percentage_split,     \* <<numerator, denominator>> of percentage_split
    downloaded_size,      \* accumulated weight
    used_links,           \* set of selected links
    files,                \* returned list (one name per download_file call)
    downloaded,           \* flag of the current pass
    pos,                  \* 0-based position of the for loop in links_and_sizes
    dpc,                  \* "while", "scan", "fallback", "returned" or the exception raised
    passes,               \* passes of the while loop begun so far (counted up to MaxPasses)
    skipped,              \* unselected links passed over because they would exceed target_size
    main_files,           \* files when the main loop was left
    \* ---- make_partitions.py
    folder_sizes,         \* st_size of the .SC2Replay files, in folder.iterdir() order
    num,                  \* number of partitions asked for
    all_files,            \* list of ReplayFile [path, size], sorted by size descending
    parts,                \* list of Partition [files, size]
    next_file,            \* 0-based position of the for loop in all_files
    manifests,            \* partition_<i> files written: one list of paths per partition
    bpc,                  \* "start", "assign", "write", "done" or the exception raised
    \* ---- replay_parallel.py
    n_folders,            \* len(targets): the folders to convert
    n_parallel,           \* max_workers of the process pool
    res,                  \* the futures, in submission order: "pending", "running",
                          \* "finished" or "failed" (the worker raised CalledProcessError)
    opc,                  \* "start", "submit", "returned" or the exception main raised
    \* ---- SQLSampler.sample in several worker processes
    kpc,                  \* per worker: "idle", "connected" (inside the with block) or
                          \* "queried" (leaving the with block)
    db,                   \* per worker: the connection of the call in progress, 0 if none
    sample_index,         \* per worker: the index argument of the call
    fetched,              \* per worker: outcome of cursor.execute / cursor.fetchone
    returned,             \* per worker: what the last call returned or raised
    calls,                \* per worker: sample() calls started so far
    connections,          \* every connection opened so far: [open, users]
    answers,              \* <<index, address>> of every call that returned an address
    \* ---- custom_collate (gen_sql_database.py, gen_database.py)
    batch,                \* the records handed to custom_collate
    data_batch,           \* the rows handed to default_collate
    collated,             \* outcome of default_collate: [status, columns]
    cpc                   \* "call" or "returned"

samplerVars == <<sampler, shard_sizes, filter_query, n_rows, train_ratio, is_train,
                 spc, accumulated_replays, start_idx, n_replays, index, result,
                 record>>

alignVars == <<variant, options, targets, nearest, tgt_idx, idx, apc,
               outputs_list, valid, lpc, tested, history, stage>>

selectVars == <<links_and_sizes, percentage_split, downloaded_size, used_links,
                files, downloaded, pos, dpc, passes, skipped, main_files>>

balanceVars == <<folder_sizes, num, all_files, parts, next_file, manifests, bpc>>

orchVars == <<n_folders, n_parallel, res, opc>>

workerVars == <<kpc, db, sample_index, fetched, returned, calls, connections, answers>>

collateVars == <<batch, data_batch, collated, cpc>>

vars == <<samplerVars, alignVars, selectVars, balanceVars, orchVars, workerVars,
          collateVars>>

----------------------------------------------------------------------------
\* Bounds of the model
MaxShards == 3      \* files in the replay folder
MaxShardSize == 3   \* replays in one file
MaxDen == 4         \* train_ratio ranges over the fractions num/den, den <= MaxDen
MaxTimeline == 3    \* recorded steps of a replay
MaxGrid == 2        \* points of the target grid
MaxPool == 3        \* items in the download pool
MaxFiles == 5       \* .SC2Replay files in the folder
MaxFileSize == 3    \* size of one file
MaxParts == 3       \* partitions asked for
MaxFolders == 3     \* replay folders to convert
MaxProcs == 2       \* cpu_count() of the machine
MaxCalls == 2       \* sample() calls made by one worker process
MaxBatch == 3       \* records in one batch
MaxPasses == 3      \* passes of the main loop of split_and_download that are counted

----------------------------------------------------------------------------
\* Generic helpers

RECURSIVE SumSeq(_)
SumSeq(s) == IF s = <<>> THEN 0 ELSE s[1] + SumSeq(Tail(s))

SeqsUpTo(S, lo, hi) == UNION {[1..n -> S] : n \in lo..hi}

SetMax(S) == CHOOSE x \in S : \A y \in S : y <= x

----------------------------------------------------------------------------
\* sampler.py

\* train_ratio strictly between 0 and 1, as a fraction
Ratios == {r \in (1..MaxDen) \X (2..MaxDen) : r[1] < r[2]}

NoResult == [status |-> "none", file |-> -1, db_index |-> -1]

NoRecord == <<>>

\* item counts of the shards of an SC2Replay dataset
ShardSizeVals == {0, 5, 7}

\* ReplaySampler.get_split_params: train_size = int(dataset_size * train_ratio)
TrainSize(dataset_size, ratio) == (dataset_size * ratio[1]) \div ratio[2]

GetSplitParamsSwapped(dataset_size, ratio, train) ==
    LET train_size == TrainSize(dataset_size, ratio)
        start == IF train THEN 0 ELSE train_size
        n == IF train THEN train_size ELSE dataset_size - train_size
    IN  [ok |-> n > 0, start_idx |-> start, n_replays |-> n]

GetSplitParamsFromZero(dataset_size, ratio, train) ==
    LET train_size == TrainSize(dataset_size, ratio)
        n == IF train THEN dataset_size - train_size ELSE train_size
    IN  [ok |-> n > 0, start_idx |-> 0, n_replays |-> n]

GetSplitParams(dataset_size, ratio, train) ==
    LET train_size == TrainSize(dataset_size, ratio)
        start == IF train THEN train_size ELSE 0
        n == IF train THEN dataset_size - train_size ELSE train_size
    IN  [ok |-> n > 0, start_idx |-> start, n_replays |-> n]

ReplaysPerFileShifted(sizes) ==
    [k \in 0..Len(sizes) |-> IF k = Len(sizes) THEN 0 ELSE sizes[k + 1]]

\* replays_per_file: entry 0 is 0, entry idx is the size of file idx (1-based enumerate)
ReplaysPerFile(sizes) ==
    [k \in 0..Len(sizes) |-> IF k = 0 THEN 0 ELSE sizes[k]]

\* np.cumsum(replays_per_file, 0)
RECURSIVE CumSumAt(_, _)
CumSumAt(rpf, k) == IF k = 0 THEN rpf[0] ELSE CumSumAt(rpf, k - 1) + rpf[k]

CumSum(rpf) == [k \in DOMAIN rpf |-> CumSumAt(rpf, k)]

UpperBoundStrict(x, value) ==
    LET hits == {k \in DOMAIN x : x[k] < value}
    IN  IF hits = {} THEN -1 ELSE SetMax(hits)

\* upper_bound(x, value): int(np.argwhere(x <= value)[-1]); -1 stands for the
\* IndexError of indexing an empty argwhere result
UpperBound(x, value) ==
    LET hits == {k \in DOMAIN x : x[k] <= value}
    IN  IF hits = {} THEN -1 ELSE SetMax(hits)

DatasetSize == IF sampler = "SQLSampler"
               THEN n_rows
               ELSE SumSeq(shard_sizes)

\* a folder without any .SC2Replays file is shard_sizes = <<>>
SamplerInit ==
    /\ sampler \in {"BasicSampler", "SQLSampler", "SC2Replay"}
    /\ CASE sampler = "BasicSampler" ->
              /\ shard_sizes \in SeqsUpTo(0..MaxShardSize, 0, MaxShards)
              /\ filter_query = "none"
              /\ n_rows = 0
              /\ train_ratio \in Ratios
              /\ is_train \in BOOLEAN
         [] sampler = "SQLSampler" ->
              /\ shard_sizes \in {<<>>, <<MaxShardSize>>}
              /\ filter_query \in {"valid", "malformed"}
              /\ n_rows \in IF filter_query = "valid"
                             THEN 0..(MaxShards * MaxShardSize)
                             ELSE {0}
              /\ train_ratio \in Ratios
              /\ is_train \in BOOLEAN
         [] sampler = "SC2Replay" ->
              /\ shard_sizes \in SeqsUpTo(ShardSizeVals, 0, MaxShards)
              /\ filter_query = "none"
              /\ n_rows = 0
              /\ train_ratio = <<1, 2>>
              /\ is_train = FALSE
    /\ spc = "new"
    /\ accumulated_replays = <<>>
    /\ start_idx = 0
    /\ n_replays = 0
    /\ index = 0
    /\ result = NoResult
    /\ record = NoRecord

SamplerIdle ==
    /\ sampler = "none"
    /\ shard_sizes = <<>>
    /\ filter_query = "none"
    /\ n_rows = 0
    /\ train_ratio = <<1, 2>>
    /\ is_train = FALSE
    /\ spc = "idle"
    /\ accumulated_replays = <<>>
    /\ start_idx = 0
    /\ n_replays = 0
    /\ index = 0
    /\ result = NoResult
    /\ record = NoRecord

\* BasicSampler.__init__: "assert len(self.replays) > 0" on a folder without shards
BasicNoReplays ==
    /\ spc = "new"
    /\ sampler = "BasicSampler"
    /\ shard_sizes = <<>>
    /\ spc' = "AssertionError_NoReplays"
    /\ UNCHANGED <<sampler, shard_sizes, filter_query, n_rows, train_ratio, is_train,
                   accumulated_replays, start_idx, n_replays, index, result, record>>
    /\ UNCHANGED <<alignVars, selectVars, balanceVars,
                   orchVars, workerVars, collateVars>>

\* SQLSampler.__init__ with a filter list gen_val_query rejects
\* (incomplete statement or sqlite3.OperationalError -> AssertionError)
SQLInvalidQuery ==
    /\ spc = "new"
    /\ sampler = "SQLSampler"
    /\ filter_query = "malformed"
    /\ spc' = "AssertionError_InvalidQuery"
    /\ UNCHANGED <<sampler, shard_sizes, filter_query, n_rows, train_ratio, is_train,
                   accumulated_replays, start_idx, n_replays, index, result, record>>
    /\ UNCHANGED <<alignVars, selectVars, balanceVars,
                   orchVars, workerVars, collateVars>>

\* BasicSampler.__init__ (the folder holds at least one file) and
\* SQLSampler.__init__ (the filter query is valid; replays_path exists, its
\* content is not looked at)
Construct ==
    /\ spc = "new"
    /\ \/ sampler = "BasicSampler" /\ shard_sizes # <<>>
       \/ sampler = "SQLSampler" /\ filter_query = "valid"
    /\ LET acc == IF sampler = "BasicSampler"
                  THEN CumSum(ReplaysPerFile(shard_sizes))
                  ELSE <<>>
           total == IF sampler = "BasicSampler"
                    THEN acc[Len(shard_sizes)]
                    ELSE n_rows
           split == GetSplitParams(total, train_ratio, is_train)
       IN  /\ accumulated_replays' = acc
           /\ IF split.ok
              THEN /\ spc' = "ready"
                   /\ start_idx' = split.start_idx
                   /\ n_replays' = split.n_replays
              ELSE /\ spc' = "AssertionError"
                   /\ UNCHANGED <<start_idx, n_replays>>
    /\ UNCHANGED <<sampler, shard_sizes, filter_query, n_rows, train_ratio, is_train,
                   index, result, record>>
    /\ UNCHANGED <<alignVars, selectVars, balanceVars,
                   orchVars, workerVars, collateVars>>

\* BasicSampler.sample
BasicSampleResult(i) ==
    LET file_index == UpperBound(accumulated_replays, start_idx + i)
    IN  IF file_index = -1
        THEN [status |-> "IndexError", file |-> -1, db_index |-> -1]
        ELSE LET db_index == i - accumulated_replays[file_index]
             IN  IF file_index >= Len(shard_sizes)   \* self.replays[file_index]
                 THEN [status |-> "IndexError", file |-> -1, db_index |-> -1]
                 ELSE [status |-> "ok", file |-> file_index, db_index |-> db_index]

\* SQLSampler.sample: the row at OFFSET start_idx + index of the filtered query;
\* fetchone() gives None past the last row and subscripting None is a TypeError
SQLSampleResult(i) ==
    LET offset == start_idx + i
    IN  IF offset < n_rows
        THEN [status |-> "ok", file |-> 0, db_index |-> offset]
        ELSE [status |-> "TypeError", file |-> -1, db_index |-> -1]

BasicSample ==
    /\ spc = "ready"
    /\ sampler = "BasicSampler"
    /\ \E i \in 0..(DatasetSize + 1) :
        /\ index' = i
        /\ result' = BasicSampleResult(i)
    /\ UNCHANGED <<sampler, shard_sizes, filter_query, n_rows, train_ratio, is_train,
                   spc, accumulated_replays, start_idx, n_replays, record>>
    /\ UNCHANGED <<alignVars, selectVars, balanceVars,
                   orchVars, workerVars, collateVars>>

SQLSample ==
    /\ spc = "ready"
    /\ sampler = "SQLSampler"
    /\ \E i \in 0..(DatasetSize + 1) :
        /\ index' = i
        /\ result' = SQLSampleResult(i)
    /\ UNCHANGED <<sampler, shard_sizes, filter_query, n_rows, train_ratio, is_train,
                   spc, accumulated_replays, start_idx, n_replays, record>>
    /\ UNCHANGED <<alignVars, selectVars, balanceVars,
                   orchVars, workerVars, collateVars>>

----------------------------------------------------------------------------
\* scripts/replay_sql.py: SC2Replay

\* the dict returned when the entry cannot be read; hdr tells whether
\* getHeader(db_index) could still be read
DegradedRecord(file_index, db_index, hdr) ==
    LET base == [partition |-> file_index, idx |-> db_index,
                 read_success |-> FALSE, parse_success |-> FALSE]
    IN  IF hdr
        THEN base @@ [playerId |-> 1, replayHash |-> "hash"]
        ELSE base

ReadRecordAlwaysParsed(file_index, db_index, parsed) ==
    [partition |-> file_index, idx |-> db_index,
     read_success |-> TRUE, parse_success |-> TRUE,
     playerId |-> 1, replayHash |-> "hash", playerAPM |-> 100, game_length |-> 10]

\* the dict returned when the entry was read: the features of parser.info,
\* the lambda columns, and the four additional columns
ReadRecord(file_index, db_index, parsed) ==
    [partition |-> file_index, idx |-> db_index,
     read_success |-> TRUE, parse_success |-> parsed,
     playerId |-> 1, replayHash |-> "hash", playerAPM |-> 100, game_length |-> 10]

\* outcomes of db_handle.getEntry plus the popArmy assertion, of getHeader, and
\* of parser.parse_replay
ReadOutcomes == {"ok", "MemoryError", "AssertionError"}

HeaderOutcomes == {"ok", "MemoryError"}

ParseOutcomes == {"ok", "IndexError", "RuntimeError"}

\* getHeader is called only after a failed read, parse_replay only after a
\* successful one; "skipped" marks the call that was not made
CallOutcomes ==
    {<<rd, hd, "skipped">> : rd \in ReadOutcomes \ {"ok"}, hd \in HeaderOutcomes}
        \cup {<<"ok", "skipped", ps>> : ps \in ParseOutcomes}

\* SC2Replay.__init__ on a folder without shards
ReplayNoReplays ==
    /\ spc = "new"
    /\ sampler = "SC2Replay"
    /\ shard_sizes = <<>>
    /\ spc' = "AssertionError_NoReplays"
    /\ UNCHANGED <<sampler, shard_sizes, filter_query, n_rows, train_ratio, is_train,
                   accumulated_replays, start_idx, n_replays, index, result, record>>
    /\ UNCHANGED <<alignVars, selectVars, balanceVars,
                   orchVars, workerVars, collateVars>>

\* SC2Replay.__init__: cumulative index, "assert self.n_replays > 0"
ReplayConstruct ==
    /\ spc = "new"
    /\ sampler = "SC2Replay"
    /\ shard_sizes # <<>>
    /\ LET acc == CumSum(ReplaysPerFile(shard_sizes))
           total == acc[Len(shard_sizes)]
       IN  /\ accumulated_replays' = acc
           /\ n_replays' = total
           /\ spc' = IF total > 0 THEN "ready" ELSE "AssertionError_Empty"
    /\ UNCHANGED <<sampler, shard_sizes, filter_query, n_rows, train_ratio, is_train,
                   start_idx, index, result, record>>
    /\ UNCHANGED <<alignVars, selectVars, balanceVars,
                   orchVars, workerVars, collateVars>>

\* SC2Replay.__getitem__
ReplayGetItem ==
    /\ spc = "ready"
    /\ sampler = "SC2Replay"
    /\ \E i \in 0..(DatasetSize + 1), oc \in CallOutcomes :
        LET file_index == UpperBound(accumulated_replays, i)
        IN  /\ index' = i
            /\ IF file_index = -1 \/ file_index >= Len(shard_sizes)
               THEN /\ result' = [status |-> "IndexError", file |-> -1, db_index |-> -1]
                    /\ record' = NoRecord
               ELSE LET db_index == i - accumulated_replays[file_index]
                    IN  /\ result' = [status |-> "ok", file |-> file_index,
                                      db_index |-> db_index, read |-> oc[1],
                                      header |-> oc[2], parse |-> oc[3]]
                        /\ record' = IF oc[1] # "ok"
                                     THEN DegradedRecord(file_index, db_index,
                                                         oc[2] = "ok")
                                     ELSE ReadRecord(file_index, db_index,
                                                     oc[3] = "ok")
    /\ UNCHANGED <<sampler, shard_sizes, filter_query, n_rows, train_ratio, is_train,
                   spc, accumulated_replays, start_idx, n_replays>>
    /\ UNCHANGED <<alignVars, selectVars, balanceVars,
                   orchVars, workerVars, collateVars>>

----------------------------------------------------------------------------
\* find_closest_indices

\* game steps that timelines and grids are drawn from
TimeVals == {0, 5, 10, 20, 30}

\* the grid is torch.arange(min, max, step) scaled: strictly increasing
StrictlyIncreasing(s) == \A j \in 1..(Len(s) - 1) : s[j] < s[j + 1]

NonDecreasing(s) == \A j \in 1..(Len(s) - 1) : s[j] <= s[j + 1]

Grids == {g \in SeqsUpTo(TimeVals, 1, MaxGrid) : StrictlyIncreasing(g)}

Timelines == SeqsUpTo(TimeVals, 1, MaxTimeline)

\* number of (prv, nxt) pairs itertools.pairwise(options) / zip(options, options[1:]) yields
NumPairs(opts) == IF Len(opts) = 0 THEN 0 ELSE Len(opts) - 1

\* prv <= targets[tgt_idx] <= nxt
EnclosesNoUpper(prv, t, nxt) == prv <= t

Encloses(prv, t, nxt) == prv <= t /\ t <= nxt

\* torch.full([len(targets)], -1) followed, in example.py, by the edge case
\* "if targets[0] < options[0]: nearest[0] = 0"
InitialNearestAllEarly(v, opts, tgts) ==
    [j \in 1..Len(tgts) |->
        IF v = "example" /\ tgts[j] < opts[1] THEN 0 ELSE -1]

\* the result tensor of the previous call used again when it has the length
\* of the grid, instead of a new torch.full
InitialNearestStale(v, opts, tgts) ==
    IF Len(nearest) = Len(tgts)
    THEN nearest
    ELSE [j \in 1..Len(tgts) |->
            IF v = "example" /\ j = 1 /\ tgts[1] < opts[1] THEN 0 ELSE -1]

InitialNearest(v, opts, tgts) ==
    [j \in 1..Len(tgts) |->
        IF v = "example" /\ j = 1 /\ tgts[1] < opts[1] THEN 0 ELSE -1]

\* the walk staying on the pair it has just tested
PairRetested(i) == i

\* the for loop taking the next (prv, nxt) of the pairwise iterator
PairAfter(i) == i + 1

AlignInit ==
    /\ variant \in {"example", "reader", "utils"}
    /\ options \in Timelines
    /\ targets \in Grids
    /\ nearest = <<>>
    /\ tgt_idx = 0
    /\ idx = 0
    /\ apc = "call"
    /\ outputs_list = <<>>
    /\ valid = <<>>
    /\ lpc = "call"
    /\ tested = {}
    /\ history = {}
    /\ stage = "first"

AlignIdle ==
    /\ variant = "none"
    /\ options = <<>>
    /\ targets = <<>>
    /\ nearest = <<>>
    /\ tgt_idx = 0
    /\ idx = 0
    /\ apc = "idle"
    /\ outputs_list = <<>>
    /\ valid = <<>>
    /\ lpc = "idle"
    /\ tested = {}
    /\ history = {}
    /\ stage = "idle"

\* entry of find_closest_indices up to the for loop
FindClosestCall ==
    /\ apc = "call"
    /\ tgt_idx' = 0
    /\ idx' = 0
    /\ nearest' = InitialNearest(variant, options, targets)
    /\ tested' = {}
    /\ apc' = "loop"
    /\ UNCHANGED <<variant, options, targets, outputs_list, valid, lpc,
                   history, stage>>
    /\ UNCHANGED <<samplerVars, selectVars, balanceVars,
                   orchVars, workerVars, collateVars>>

\* one iteration of the for loop of the two example.py; reading
\* targets[tgt_idx] past the end of the grid is an IndexError
PairStep ==
    /\ apc = "loop"
    /\ variant \in {"example", "reader"}
    /\ idx < NumPairs(options)
    /\ IF tgt_idx >= Len(targets)
       THEN /\ apc' = "IndexError"
            /\ UNCHANGED <<nearest, tgt_idx, idx, tested>>
       ELSE LET prv == options[idx + 1]
                nxt == options[idx + 2]
                t == targets[tgt_idx + 1]
                skip == prv > t
                bind == ~skip /\ Encloses(prv, t, nxt)
                new_tgt == IF skip \/ bind THEN tgt_idx + 1 ELSE tgt_idx
            IN  /\ tested' = tested \cup {<<idx, tgt_idx>>}
                /\ nearest' = IF bind
                              THEN [nearest EXCEPT ![tgt_idx + 1] = idx]
                              ELSE nearest
                /\ tgt_idx' = new_tgt
                /\ IF new_tgt = Len(nearest)
                   THEN apc' = "done" /\ idx' = idx
                   ELSE apc' = "loop" /\ idx' = PairAfter(idx)
    /\ UNCHANGED <<variant, options, targets, outputs_list, valid, lpc,
                   history, stage>>
    /\ UNCHANGED <<samplerVars, selectVars, balanceVars,
                   orchVars, workerVars, collateVars>>

\* one iteration of the for loop of api/utils.py
UtilsPairStep ==
    /\ apc = "loop"
    /\ variant = "utils"
    /\ idx < NumPairs(options)
    /\ tested' = IF tgt_idx >= Len(targets)
                 THEN tested
                 ELSE tested \cup {<<idx, tgt_idx>>}
    /\ IF tgt_idx >= Len(targets)
       THEN /\ apc' = "IndexError"
            /\ UNCHANGED <<nearest, tgt_idx, idx>>
       ELSE LET prv == options[idx + 1]
                nxt == options[idx + 2]
                t == targets[tgt_idx + 1]
            IN  IF prv > t
                THEN /\ tgt_idx' = tgt_idx + 1
                     /\ nearest' = nearest
                     /\ IF tgt_idx + 1 = Len(nearest)
                        THEN apc' = "done" /\ idx' = idx
                        ELSE apc' = "loop" /\ idx' = PairAfter(idx)    \* continue
                ELSE IF Encloses(prv, t, nxt)
                THEN /\ nearest' = [nearest EXCEPT ![tgt_idx + 1] = idx]
                     /\ tgt_idx' = tgt_idx + 1
                     /\ IF tgt_idx + 1 = Len(nearest)
                        THEN apc' = "done" /\ idx' = idx
                        ELSE apc' = "loop" /\ idx' = PairAfter(idx)
                ELSE /\ UNCHANGED <<nearest, tgt_idx>>
                     /\ apc' = "loop"
                     /\ idx' = PairAfter(idx)
    /\ UNCHANGED <<variant, options, targets, outputs_list, valid, lpc,
                   history, stage>>
    /\ UNCHANGED <<samplerVars, selectVars, balanceVars,
                   orchVars, workerVars, collateVars>>

\* the pairs are exhausted: return nearest
PairsExhausted ==
    /\ apc = "loop"
    /\ idx >= NumPairs(options)
    /\ apc' = "done"
    /\ UNCHANGED <<variant, options, targets, nearest, tgt_idx, idx,
                   outputs_list, valid, lpc, tested, history, stage>>
    /\ UNCHANGED <<samplerVars, selectVars, balanceVars,
                   orchVars, workerVars, collateVars>>

\* inputs of a call made between two calls with the same inputs
InBetween == {[options |-> <<0, 10, 20>>, targets |-> <<0, 10>>]}

\* the caller calls find_closest_indices once more: with other inputs after
\* the first call, or with the inputs of an earlier call
CallAgain ==
    /\ apc \in {"done", "IndexError"}
    /\ stage \in {"first", "between"}
    /\ LET made == history \cup {[options |-> options, targets |-> targets,
                                  apc |-> apc, nearest |-> nearest]}
       IN  /\ history' = made
           /\ \/ /\ stage = "first"
                 /\ \E y \in InBetween :
                       options' = y.options /\ targets' = y.targets
                 /\ stage' = "between"
              \/ /\ \E h \in made :
                       options' = h.options /\ targets' = h.targets
                 /\ stage' = "again"
    /\ apc' = "call"
    /\ UNCHANGED <<variant, nearest, tgt_idx, idx, outputs_list, valid, lpc, tested>>
    /\ UNCHANGED <<samplerVars, selectVars, balanceVars,
                   orchVars, workerVars, collateVars>>

----------------------------------------------------------------------------
\* SC2Dataset.load_from_parser

\* what one entry of outputs_list[k] holds: the features of a timeline step
\* or the zeros_like placeholder
StepSample(step) == [kind |-> "sample", step |-> step]

ZeroSample == [kind |-> "zeros", step |-> -1]

\* the list before the loop: empty in sc2_serializer/example.py,
\* [parser.sample(0)] in sc2_replay_reader/example.py
InitialOutputs(v) == IF v = "reader" THEN <<StepSample(0)>> ELSE <<>>

\* "for idx in sample_indices": the list after the first n indices;
\* zeros_like(outputs_list[k][-1]) on an empty list is an IndexError,
\* written as the string "IndexError"
RECURSIVE AppendSamples(_, _, _)
AppendSamples(v, indices, n) ==
    IF n = 0
    THEN InitialOutputs(v)
    ELSE LET before == AppendSamples(v, indices, n - 1)
         IN  IF before = "IndexError"
             THEN "IndexError"
             ELSE IF indices[n] = -1
             THEN IF before = <<>>
                  THEN "IndexError"
                  ELSE Append(before, ZeroSample)
             ELSE Append(before, StepSample(indices[n]))

\* torch.cat([torch.tensor([True]), sample_indices != -1])
ValidMask(indices) ==
    [j \in 1..(Len(indices) + 1) |-> IF j = 1 THEN TRUE ELSE indices[j - 1] # -1]

LoadFromParser ==
    /\ lpc = "call"
    /\ apc = "done"
    /\ variant \in {"example", "reader"}
    /\ LET built == AppendSamples(variant, nearest, Len(nearest))
       IN  IF built = "IndexError"
           THEN /\ lpc' = "IndexError"
                /\ UNCHANGED <<outputs_list, valid>>
           ELSE /\ outputs_list' = built
                /\ valid' = ValidMask(nearest)
                /\ lpc' = "returned"
    /\ UNCHANGED <<variant, options, targets, nearest, tgt_idx, idx, apc,
                   tested, history, stage>>
    /\ UNCHANGED <<samplerVars, selectVars, balanceVars,
                   orchVars, workerVars, collateVars>>

----------------------------------------------------------------------------
\* split_and_download

buffer_size == 200

\* file sizes the pool is drawn from
Weights == {0, 200, 400, 1000}

\* values of percentage_split (dataset_size, 1.0 by default)
Splits == {<<1, 4>>, <<1, 2>>, <<1, 1>>}

Pools == UNION {{[i \in 1..n |-> <<i, w[i]>>] : w \in [1..n -> Weights]} : n \in 0..MaxPool}

RECURSIVE SumSizes(_)
SumSizes(pool) == IF pool = <<>> THEN 0 ELSE pool[1][2] + SumSizes(Tail(pool))

\* outcomes of random.shuffle(links_and_sizes)
Shuffles(pool) ==
    LET n == Len(pool)
        perms == {p \in [1..n -> 1..n] : \A i, j \in 1..n : p[i] = p[j] => i = j}
    IN  {[i \in 1..n |-> pool[p[i]]] : p \in perms}

\* total_size = sum(size ...); target_size = total_size * percentage_split.
\* Comparisons with target_size are scaled by the denominator of percentage_split.
total_size == SumSizes(links_and_sizes)

\* downloaded_size < (target_size - buffer_size)
BelowTarget(acc) ==
    acc * percentage_split[2] <
        total_size * percentage_split[1] - buffer_size * percentage_split[2]

\* the main loop's test made against target_size + buffer_size
OverTargetPlusBuffer(acc, size) ==
    (acc + size) * percentage_split[2] >
        total_size * percentage_split[1] + buffer_size * percentage_split[2]

\* downloaded_size + size > target_size
OverTarget(acc, size) ==
    (acc + size) * percentage_split[2] > total_size * percentage_split[1]

\* the test of line 57 without "or link in used_links"
SkipsOverTargetOnly(acc, size, link) == OverTarget(acc, size)

\* the test of line 57 also passing over every item after the first download of a pass
SkipsAfterDownload(acc, size, link) ==
    OverTarget(acc, size) \/ link \in used_links \/ downloaded

\* if downloaded_size + size > target_size or link in used_links: continue
Skips(acc, size, link) == OverTarget(acc, size) \/ link \in used_links

\* "if not downloaded: break", else back to the while test
AfterPassNoBreak(dl) == "while"

AfterPass(dl) == IF ~dl THEN "fallback" ELSE "while"

\* remaining_links = [link for link, size in links_and_sizes if link not in used_links]
RemainingLinks == SelectSeq(links_and_sizes, LAMBDA e : e[1] \notin used_links)

SelectInit ==
    /\ links_and_sizes \in Pools
    /\ percentage_split \in Splits
    /\ downloaded_size = 0
    /\ used_links = {}
    /\ files = <<>>
    /\ downloaded = FALSE
    /\ pos = 0
    /\ dpc = "while"
    /\ passes = 0
    /\ skipped = {}
    /\ main_files = <<>>

SelectIdle ==
    /\ links_and_sizes = <<>>
    /\ percentage_split = <<1, 1>>
    /\ downloaded_size = 0
    /\ used_links = {}
    /\ files = <<>>
    /\ downloaded = FALSE
    /\ pos = 0
    /\ dpc = "idle"
    /\ passes = 0
    /\ skipped = {}
    /\ main_files = <<>>

\* the while condition holds: shuffle and start a pass
ShufflePass ==
    /\ dpc = "while"
    /\ BelowTarget(downloaded_size)
    /\ Cardinality(used_links) < Len(links_and_sizes)
    /\ links_and_sizes' \in Shuffles(links_and_sizes)
    /\ downloaded' = FALSE
    /\ pos' = 0
    /\ dpc' = "scan"
    /\ passes' = IF passes < MaxPasses THEN passes + 1 ELSE passes
    /\ UNCHANGED <<percentage_split, downloaded_size, used_links, files,
                   skipped, main_files>>
    /\ UNCHANGED <<samplerVars, alignVars, balanceVars,
                   orchVars, workerVars, collateVars>>

\* the while condition fails: leave the main loop
LoopExit ==
    /\ dpc = "while"
    /\ ~(BelowTarget(downloaded_size) /\ Cardinality(used_links) < Len(links_and_sizes))
    /\ dpc' = "fallback"
    /\ main_files' = files
    /\ UNCHANGED <<links_and_sizes, percentage_split, downloaded_size, used_links,
                   files, downloaded, pos, passes, skipped>>
    /\ UNCHANGED <<samplerVars, alignVars, balanceVars,
                   orchVars, workerVars, collateVars>>

\* one iteration of "for link, size in links_and_sizes"
ScanItem ==
    /\ dpc = "scan"
    /\ pos < Len(links_and_sizes)
    /\ LET link == links_and_sizes[pos + 1][1]
           size == links_and_sizes[pos + 1][2]
       IN  /\ IF Skips(downloaded_size, size, link)
              THEN UNCHANGED <<files, downloaded_size, used_links, downloaded>>
              ELSE /\ files' = Append(files, link)
                   /\ downloaded_size' = downloaded_size + size
                   /\ used_links' = used_links \cup {link}
                   /\ downloaded' = TRUE
           /\ skipped' = IF OverTarget(downloaded_size, size) /\ link \notin used_links
                         THEN skipped \cup {link}
                         ELSE skipped
    /\ pos' = pos + 1
    /\ UNCHANGED <<links_and_sizes, percentage_split, dpc, passes, main_files>>
    /\ UNCHANGED <<samplerVars, alignVars, balanceVars,
                   orchVars, workerVars, collateVars>>

\* end of the for loop
EndPass ==
    /\ dpc = "scan"
    /\ pos = Len(links_and_sizes)
    /\ dpc' = AfterPass(downloaded)
    /\ main_files' = IF dpc' = "fallback" THEN files ELSE main_files
    /\ UNCHANGED <<links_and_sizes, percentage_split, downloaded_size, used_links,
                   files, downloaded, pos, passes, skipped>>
    /\ UNCHANGED <<samplerVars, alignVars, balanceVars,
                   orchVars, workerVars, collateVars>>

\* lines 69-83.  remaining_links holds the links alone (strings), so
\* "for link, size in remaining_links" cannot unpack its first element and
\* raises ValueError before anything is added; with no link left it returns.
Fallback ==
    /\ dpc = "fallback"
    /\ IF BelowTarget(downloaded_size) /\ RemainingLinks # <<>>
       THEN dpc' = "ValueError"
       ELSE dpc' = "returned"
    /\ UNCHANGED <<links_and_sizes, percentage_split, downloaded_size, used_links,
                   files, downloaded, pos, passes, skipped, main_files>>
    /\ UNCHANGED <<samplerVars, alignVars, balanceVars,
                   orchVars, workerVars, collateVars>>

----------------------------------------------------------------------------
\* make_partitions.py

\* all_files = [ReplayFile(f, f.stat().st_size) for f in folder.iterdir() ...];
\* the path of a file is its position in the listing
ListFiles(sizes) == [i \in 1..Len(sizes) |-> [path |-> i, size |-> sizes[i]]]

\* list.sort(key=lambda x: x.size, reverse=True): stable, descending by size
RECURSIVE InsertDesc(_, _)
InsertDesc(sorted, f) ==
    IF sorted = <<>> THEN <<f>>
    ELSE IF sorted[1].size >= f.size
         THEN <<sorted[1]>> \o InsertDesc(Tail(sorted), f)
         ELSE <<f>> \o sorted

SortDescSkipped(fs) == fs

RECURSIVE SortDesc(_)
SortDesc(fs) ==
    IF fs = <<>> THEN <<>>
    ELSE InsertDesc(SortDesc(SubSeq(fs, 1, Len(fs) - 1)), fs[Len(fs)])

\* Partition(): files = [], size = 0
EmptyPartition == [files |-> <<>>, size |-> 0]

\* Partition.append
PartitionAppendSizeOnly(part, file) ==
    [files |-> part.files, size |-> part.size + file.size]

PartitionAppend(part, file) ==
    [files |-> Append(part.files, file), size |-> part.size + file.size]

\* the last partition of least size
MinPartLast(ps) ==
    CHOOSE i \in 1..Len(ps) :
        /\ \A j \in 1..Len(ps) : ps[i].size <= ps[j].size
        /\ \A j \in (i + 1)..Len(ps) : ps[j].size > ps[i].size

\* the first partition whatever the sizes
MinPartIgnoringSize(ps) == 1

\* min(parts, key=lambda x: x.size): position of the first partition of least size
MinPart(ps) ==
    CHOOSE i \in 1..Len(ps) :
        /\ \A j \in 1..Len(ps) : ps[i].size <= ps[j].size
        /\ \A j \in 1..(i - 1) : ps[j].size > ps[i].size

BalanceInit ==
    /\ folder_sizes \in SeqsUpTo(0..MaxFileSize, 0, MaxFiles)
    /\ num \in 0..MaxParts
    /\ all_files = <<>>
    /\ parts = <<>>
    /\ next_file = 0
    /\ manifests = <<>>
    /\ bpc = "start"

BalanceIdle ==
    /\ folder_sizes = <<>>
    /\ num = 0
    /\ all_files = <<>>
    /\ parts = <<>>
    /\ next_file = 0
    /\ manifests = <<>>
    /\ bpc = "idle"

\* lines 51-59: list the folder, sort, create the partitions
ListAndSort ==
    /\ bpc = "start"
    /\ all_files' = SortDesc(ListFiles(folder_sizes))
    /\ parts' = [i \in 1..num |-> EmptyPartition]
    /\ next_file' = 0
    /\ bpc' = "assign"
    /\ UNCHANGED <<folder_sizes, num, manifests>>
    /\ UNCHANGED <<samplerVars, alignVars, selectVars,
                   orchVars, workerVars, collateVars>>

\* lines 60-62: one iteration of "for file in all_files"; min() of an empty
\* list of partitions raises ValueError
AssignFile ==
    /\ bpc = "assign"
    /\ next_file < Len(all_files)
    /\ IF parts = <<>>
       THEN /\ bpc' = "ValueError"
            /\ UNCHANGED <<parts, next_file>>
       ELSE LET i == MinPart(parts)
                file == all_files[next_file + 1]
            IN  /\ parts' = [parts EXCEPT ![i] = PartitionAppend(parts[i], file)]
                /\ next_file' = next_file + 1
                /\ bpc' = "assign"
    /\ UNCHANGED <<folder_sizes, num, all_files, manifests>>
    /\ UNCHANGED <<samplerVars, alignVars, selectVars,
                   orchVars, workerVars, collateVars>>

\* lines 64-67: write one manifest per partition, the file names in list order
WriteManifests ==
    /\ bpc = "assign"
    /\ next_file = Len(all_files)
    /\ manifests' = [i \in 1..Len(parts) |->
                        [k \in 1..Len(parts[i].files) |-> parts[i].files[k].path]]
    /\ bpc' = "done"
    /\ UNCHANGED <<folder_sizes, num, all_files, parts, next_file>>
    /\ UNCHANGED <<samplerVars, alignVars, selectVars,
                   orchVars, workerVars, collateVars>>

----------------------------------------------------------------------------
\* scripts/replay_parallel.py

Completed(f) == f \in {"finished", "failed"}

Running == {i \in 1..Len(res) : res[i] = "running"}

OrchInit ==
    /\ n_folders \in 0..MaxFolders
    /\ n_parallel \in 0..(MaxProcs + 1)
    /\ res = <<>>
    /\ opc = "start"

OrchIdle ==
    /\ n_folders = 0
    /\ n_parallel = 0
    /\ res = <<>>
    /\ opc = "idle"

\* main up to the with statement: "if not 0 < n_parallel <= cpu_count()"
MainStart ==
    /\ opc = "start"
    /\ opc' = IF 0 < n_parallel /\ n_parallel <= MaxProcs
              THEN "submit"
              ELSE "RuntimeError"
    /\ UNCHANGED <<n_folders, n_parallel, res>>
    /\ UNCHANGED <<samplerVars, alignVars, selectVars, balanceVars,
                   workerVars, collateVars>>

\* one iteration of the for loop: res.append(ctx.submit(run_with_redirect, ...))
Submit ==
    /\ opc = "submit"
    /\ Len(res) < n_folders
    /\ res' = Append(res, "pending")
    /\ UNCHANGED <<n_folders, n_parallel, opc>>
    /\ UNCHANGED <<samplerVars, alignVars, selectVars, balanceVars,
                   workerVars, collateVars>>

\* a free pool process picks up a pending task
StartTask ==
    /\ Cardinality(Running) < n_parallel
    /\ \E i \in 1..Len(res) :
        /\ res[i] = "pending"
        /\ res' = [res EXCEPT ![i] = "running"]
    /\ UNCHANGED <<n_folders, n_parallel, opc>>
    /\ UNCHANGED <<samplerVars, alignVars, selectVars, balanceVars,
                   workerVars, collateVars>>

\* run_with_redirect ends: subprocess.run(..., check=True) returns, or raises
\* CalledProcessError on a non-zero exit; the pool stores it in the future
FinishTask ==
    /\ \E i \in Running, outcome \in {"finished", "failed"} :
        res' = [res EXCEPT ![i] = outcome]
    /\ UNCHANGED <<n_folders, n_parallel, opc>>
    /\ UNCHANGED <<samplerVars, alignVars, selectVars, balanceVars,
                   workerVars, collateVars>>

\* fut.wait(res) returns once every future is done, then the with block shuts
\* the pool down and main returns; no future's result() is asked for
WaitAll ==
    /\ opc = "submit"
    /\ Len(res) = n_folders
    /\ \A i \in 1..Len(res) : Completed(res[i])
    /\ opc' = "returned"
    /\ UNCHANGED <<n_folders, n_parallel, res>>
    /\ UNCHANGED <<samplerVars, alignVars, selectVars, balanceVars,
                   workerVars, collateVars>>

----------------------------------------------------------------------------
\* SQLSampler.sample called from worker processes

\* the worker processes of the data loader, each holding the sampler
Workers == {1, 2}

\* rows the filter query selects in the database
RowCounts == {1, 2, 3}

QueryFailed == [status |-> "OperationalError", file |-> -1, db_index |-> -1]

\* sqlite3.connect(self.database_path): a connection of its own for the call
OpenConnection(conns, call) == Append(conns, [open |-> TRUE, users |-> {call}])

UseConnection(conns, c, call) ==
    [conns EXCEPT ![c] = [@ EXCEPT !.users = @ \cup {call}]]

CloseUnlessRaised(conns, c, raised) ==
    IF raised THEN conns ELSE [conns EXCEPT ![c] = [@ EXCEPT !.open = FALSE]]

\* contextlib.closing.__exit__: db.close(), whether or not the block raised
ClosingExit(conns, c, raised) == [conns EXCEPT ![c] = [@ EXCEPT !.open = FALSE]]

\* a constructed SQLSampler (the state SQLSampler.__init__ leaves behind)
\* inherited by every worker
WorkersInit ==
    /\ sampler = "SQLSampler"
    /\ shard_sizes = <<MaxShardSize>>
    /\ filter_query = "valid"
    /\ n_rows \in RowCounts
    /\ train_ratio = <<1, 2>>
    /\ is_train \in BOOLEAN
    /\ GetSplitParams(n_rows, train_ratio, is_train).ok
    /\ spc = "ready"
    /\ accumulated_replays = <<>>
    /\ start_idx = GetSplitParams(n_rows, train_ratio, is_train).start_idx
    /\ n_replays = GetSplitParams(n_rows, train_ratio, is_train).n_replays
    /\ index = 0
    /\ result = NoResult
    /\ record = NoRecord
    /\ kpc = [w \in Workers |-> "idle"]
    /\ db = [w \in Workers |-> 0]
    /\ sample_index = [w \in Workers |-> 0]
    /\ fetched = [w \in Workers |-> NoResult]
    /\ returned = [w \in Workers |-> NoResult]
    /\ calls = [w \in Workers |-> 0]
    /\ connections = <<>>
    /\ answers = {}

\* sample(index) up to the entry of the with block; sqlite3.connect may fail
SampleConnect(w) ==
    /\ kpc[w] = "idle"
    /\ calls[w] < MaxCalls
    /\ \E i \in 0..n_replays, outcome \in {"ok", "OperationalError"} :
        /\ sample_index' = [sample_index EXCEPT ![w] = i]
        /\ calls' = [calls EXCEPT ![w] = @ + 1]
        /\ IF outcome = "ok"
           THEN /\ connections' = OpenConnection(connections, <<w, calls[w] + 1>>)
                /\ db' = [db EXCEPT ![w] = Len(connections) + 1]
                /\ kpc' = [kpc EXCEPT ![w] = "connected"]
                /\ UNCHANGED returned
           ELSE /\ returned' = [returned EXCEPT ![w] = QueryFailed]
                /\ UNCHANGED <<connections, db, kpc>>
    /\ UNCHANGED <<fetched, answers>>
    /\ UNCHANGED <<samplerVars, alignVars, selectVars, balanceVars,
                   orchVars, collateVars>>

\* the body of the with block: cursor.execute(query); cursor.fetchone()
SampleQuery(w) ==
    /\ kpc[w] = "connected"
    /\ \E outcome \in {"ok", "OperationalError"} :
        fetched' = [fetched EXCEPT ![w] = IF outcome = "ok"
                                          THEN SQLSampleResult(sample_index[w])
                                          ELSE QueryFailed]
    /\ connections' = UseConnection(connections, db[w], <<w, calls[w]>>)
    /\ kpc' = [kpc EXCEPT ![w] = "queried"]
    /\ UNCHANGED <<db, sample_index, returned, calls, answers>>
    /\ UNCHANGED <<samplerVars, alignVars, selectVars, balanceVars,
                   orchVars, collateVars>>

\* leaving the with block (db.close()) and returning the address; the
\* exception of the block, or the TypeError of subscripting None, propagates
SampleExit(w) ==
    /\ kpc[w] = "queried"
    /\ connections' = ClosingExit(connections, db[w],
                                  fetched[w].status = "OperationalError")
    /\ db' = [db EXCEPT ![w] = 0]
    /\ returned' = [returned EXCEPT ![w] = fetched[w]]
    /\ answers' = IF fetched[w].status = "ok"
                  THEN answers \cup {<<sample_index[w], fetched[w]>>}
                  ELSE answers
    /\ kpc' = [kpc EXCEPT ![w] = "idle"]
    /\ UNCHANGED <<sample_index, fetched, calls>>
    /\ UNCHANGED <<samplerVars, alignVars, selectVars, balanceVars,
                   orchVars, collateVars>>

WorkersIdle ==
    /\ kpc = <<>>
    /\ db = <<>>
    /\ sample_index = <<>>
    /\ fetched = <<>>
    /\ returned = <<>>
    /\ calls = <<>>
    /\ connections = <<>>
    /\ answers = {}

----------------------------------------------------------------------------
\* custom_collate

NotCollated == [status |-> "none", columns |-> <<>>]

\* the records SC2Replay.__getitem__ returns
BatchRecords ==
    {DegradedRecord(0, 0, hdr) : hdr \in BOOLEAN}
        \cup {ReadRecord(0, 0, parsed) : parsed \in BOOLEAN}

\* the keys every record carries
BaseKeys == {"partition", "idx", "read_success", "parse_success"}

\* torch's default_collate on a list of dicts: one column per key of the first
\* dict, [d[key] for d in batch]; a dict without the key is a KeyError
DefaultCollate(rows) ==
    LET keys == DOMAIN rows[1]
    IN  IF \E j \in 1..Len(rows) : ~(keys \subseteq DOMAIN rows[j])
        THEN [status |-> "KeyError", columns |-> <<>>]
        ELSE [status |-> "ok",
              columns |-> [k \in keys |-> [j \in 1..Len(rows) |-> rows[j][k]]]]

\* next(item for item in batch if item.get("read_success"))
FirstReadSuccess(b) ==
    b[CHOOSE j \in 1..Len(b) :
          /\ b[j].read_success
          /\ \A i \in 1..(j - 1) : ~b[i].read_success]

\* {**empty_batch, **data} for the records that were not read
FillMissing(b) ==
    LET extra_keys == DOMAIN FirstReadSuccess(b) \ BaseKeys
        empty_batch == [k \in extra_keys |-> 0]
    IN  [j \in 1..Len(b) |-> IF ~b[j].read_success
                              THEN b[j] @@ empty_batch
                              ELSE b[j]]

CollateInit ==
    /\ batch \in SeqsUpTo(BatchRecords, 1, MaxBatch)
    /\ data_batch = <<>>
    /\ collated = NotCollated
    /\ cpc = "call"

CollateIdle ==
    /\ batch = <<>>
    /\ data_batch = <<>>
    /\ collated = NotCollated
    /\ cpc = "idle"

CustomCollate ==
    /\ cpc = "call"
    /\ LET none_read == \A j \in 1..Len(batch) : ~batch[j].read_success
           all_read == \A j \in 1..Len(batch) : batch[j].read_success
           rows == IF none_read \/ all_read THEN batch ELSE FillMissing(batch)
       IN  /\ data_batch' = rows
           /\ collated' = DefaultCollate(rows)
    /\ cpc' = "returned"
    /\ UNCHANGED batch
    /\ UNCHANGED <<samplerVars, alignVars, selectVars, balanceVars,
                   orchVars, workerVars>>

----------------------------------------------------------------------------
\* Specifications, one per component

InitSampler ==
    SamplerInit /\ AlignIdle /\ SelectIdle /\ BalanceIdle
    /\ OrchIdle /\ WorkersIdle /\ CollateIdle

SamplerNext ==
    \/ BasicNoReplays \/ SQLInvalidQuery \/ Construct \/ BasicSample \/ SQLSample
    \/ ReplayNoReplays \/ ReplayConstruct \/ ReplayGetItem

SpecSampler == InitSampler /\ [][SamplerNext]_vars

InitAlign ==
    AlignInit /\ SamplerIdle /\ SelectIdle /\ BalanceIdle
    /\ OrchIdle /\ WorkersIdle /\ CollateIdle

AlignNext ==
    FindClosestCall \/ PairStep \/ UtilsPairStep \/ PairsExhausted \/ LoadFromParser

SpecAlign == InitAlign /\ [][AlignNext]_vars

\* find_closest_indices called repeatedly by the same caller
RepeatNext ==
    FindClosestCall \/ PairStep \/ UtilsPairStep \/ PairsExhausted \/ CallAgain

SpecAlignRepeat == InitAlign /\ [][RepeatNext]_vars

InitSelect ==
    SelectInit /\ SamplerIdle /\ AlignIdle /\ BalanceIdle
    /\ OrchIdle /\ WorkersIdle /\ CollateIdle

SelectNext == ShufflePass \/ LoopExit \/ ScanItem \/ EndPass \/ Fallback

SpecSelect == InitSelect /\ [][SelectNext]_vars

InitBalance ==
    BalanceInit /\ SamplerIdle /\ AlignIdle /\ SelectIdle
    /\ OrchIdle /\ WorkersIdle /\ CollateIdle

BalanceNext == ListAndSort \/ AssignFile \/ WriteManifests

SpecBalance == InitBalance /\ [][BalanceNext]_vars

\* the function runs to completion once called: no step of it waits on anything
SpecSelectFair == SpecSelect /\ WF_vars(SelectNext)

InitOrch ==
    OrchInit /\ SamplerIdle /\ AlignIdle /\ SelectIdle /\ BalanceIdle
    /\ WorkersIdle /\ CollateIdle

OrchNext == MainStart \/ Submit \/ StartTask \/ FinishTask \/ WaitAll

SpecOrch == InitOrch /\ [][OrchNext]_vars

InitWorkers ==
    WorkersInit /\ AlignIdle /\ SelectIdle /\ BalanceIdle /\ OrchIdle /\ CollateIdle

WorkersNext ==
    \E w \in Workers : SampleConnect(w) \/ SampleQuery(w) \/ SampleExit(w)

SpecWorkers == InitWorkers /\ [][WorkersNext]_vars

InitCollate ==
    CollateInit /\ SamplerIdle /\ AlignIdle /\ SelectIdle /\ BalanceIdle
    /\ OrchIdle /\ WorkersIdle

CollateNext == CustomCollate

SpecCollate == InitCollate /\ [][CollateNext]_vars

----------------------------------------------------------------------------
\* Claims about find_closest_indices

\* grid point j (1-based) lies in the closed interval of the pair at 0-based index k
Bracketed(j, k) ==
    /\ k \in 0..(Len(options) - 2)
    /\ options[k + 1] <= targets[j]
    /\ targets[j] <= options[k + 2]

\* C4: for a non-decreasing timeline and strictly increasing grid, every grid
\* point t with timeline[k] <= t <= timeline[k+1] for some k is bound to a
\* timeline index (is not left at -1).
C4_BracketedPointIsBound ==
    (apc = "done" /\ NonDecreasing(options) /\ StrictlyIncreasing(targets)) =>
        \A j \in 1..Len(targets) :
            (\E k \in 0..(Len(options) - 2) : Bracketed(j, k)) => nearest[j] # -1

\* C5 (as stated): find_closest_indices([10,20,30], [0,5]) returns [0,0]; every
\* grid point before the first timeline sample is bound to timeline index 0.
C5_EarlyPointsAllBoundToZero ==
    (apc = "done" /\ variant = "example" /\ NonDecreasing(options)) =>
        /\ (options = <<10, 20, 30>> /\ targets = <<0, 5>>) => nearest = <<0, 0>>
        /\ \A j \in 1..Len(targets) : targets[j] < options[1] => nearest[j] = 0

\* C5 (amended): find_closest_indices([10,20,30], [0,5]) returns [0,-1]; for a
\* non-decreasing timeline only grid position 0 is bound to timeline index 0 when
\* it lies before the first sample, every later grid point before the first
\* sample is left at -1.
C5_OnlyFirstEarlyPointBoundToZero ==
    (apc = "done" /\ variant = "example" /\ NonDecreasing(options)) =>
        /\ (options = <<10, 20, 30>> /\ targets = <<0, 5>>) => nearest = <<0, -1>>
        /\ \A j \in 1..Len(targets) :
              targets[j] < options[1] => nearest[j] = (IF j = 1 THEN 0 ELSE -1)

C5_Witness ==
    /\ apc = "done"
    /\ variant = "example"
    /\ options = <<10, 20, 30>>
    /\ targets = <<0, 5>>

\* C6: for every non-empty timeline and grid the call returns, never raising and
\* never reading the grid past its end, a result as long as the grid whose every
\* entry r at position j is -1 or a timeline index with
\* timeline[r] <= grid[j] <= timeline[r+1]; the only exception is position 0,
\* bound to index 0 when grid[0] < timeline[0].
C6_ResultWellFormed ==
    /\ apc \in {"call", "loop", "done"}
    /\ apc = "loop" => tgt_idx < Len(targets)
    /\ apc = "done" =>
          /\ Len(nearest) = Len(targets)
          /\ \A j \in 1..Len(targets) :
                \/ nearest[j] = -1
                \/ Bracketed(j, nearest[j])
                \/ (j = 1 /\ nearest[j] = 0 /\ targets[1] < options[1])

\* C6 witness: a returned result holding a sentinel, an interval binding and
\* the position-0 exception
C6_Witness ==
    /\ apc = "done"
    /\ Len(targets) >= 2
    /\ \E j \in 1..Len(targets) : nearest[j] = -1
    /\ \E j \in 1..Len(targets) : nearest[j] >= 0 /\ Bracketed(j, nearest[j])

\* number of points of the dataset's target grid: sc2_replay_reader hands
\* find_closest_indices the grid without its first point
GridPoints == IF variant = "reader" THEN Len(targets) + 1 ELSE Len(targets)

\* C15: load_from_parser returns, for a grid of G points, G feature vectors
\* and a valid vector of G entries parallel to them: valid[j] is true exactly
\* when position j holds the features of a timeline step and false exactly
\* when it holds a zero placeholder; position 0 is valid.
C15_ValidMaskParallelToFeatures ==
    (apc = "done" /\ variant \in {"example", "reader"} /\ lpc # "call") =>
        /\ lpc = "returned"
        /\ Len(outputs_list) = GridPoints
        /\ Len(valid) = GridPoints
        /\ \A j \in 1..GridPoints :
              valid[j] <=> outputs_list[j].kind = "sample"
        /\ valid[1]

\* the pair at index k was tested against grid position t (both 0-based) and
\* skipped because its first step lies after the grid point
SkippedAt(k, t) == <<k, t>> \in tested /\ options[k + 1] > targets[t + 1]

\* C22: when a pair (prev, next) has prev > grid[target_idx], target_idx is
\* advanced and the same pair is tested against the new grid point before the
\* walk moves on to the next pair: a pair the walk has left after a skip at a
\* grid point that is not the last one was also tested against the next one.
C22_SkipRetestsTheSamePair ==
    \A k \in 0..(idx - 1) : \A t \in 0..(Len(targets) - 2) :
        (apc \in {"loop", "done"} /\ SkippedAt(k, t)) => <<k, t + 1>> \in tested

\* the pairs enclosing grid point j (1-based)
EnclosingPairs(j) == {k \in 0..(Len(options) - 2) : Bracketed(j, k)}

SetMin(S) == CHOOSE x \in S : \A y \in S : x <= y

\* C23: a grid point enclosed by more than one consecutive pair is bound to
\* the earliest index k with timeline[k] <= t <= timeline[k+1].
C23_BoundToEarliestEnclosingPair ==
    apc = "done" =>
        \A j \in 1..Len(targets) :
            Cardinality(EnclosingPairs(j)) > 1 =>
                nearest[j] = SetMin(EnclosingPairs(j))

CallEnded == apc \in {"done", "IndexError"}

\* the calls made before with the inputs of the current one
SameInputs == {h \in history : h.options = options /\ h.targets = targets}

\* C21: find_closest_indices is a pure function: a call that ended gave the
\* outcome and the index sequence that every earlier call with the same
\* timeline and grid gave, whatever call was made in between, and no step of
\* a call changes the timeline or the grid it was given.
C21_PureFunctionOfTimelineAndGrid ==
    /\ [](CallEnded =>
            \A h \in SameInputs : h.apc = apc /\ h.nearest = nearest)
    /\ [][apc' # "call" => (options' = options /\ targets' = targets)]_vars

\* the first inputs given again after a call with other inputs, with a result
\* that has a bound and an unbound grid point
C21_Witness ==
    /\ stage = "again"
    /\ apc = "done"
    /\ Cardinality(history) = 2
    /\ SameInputs # {}
    /\ \E h \in history : h.options # options /\ h.nearest # nearest
    /\ \E j \in 1..Len(nearest) : nearest[j] = -1
    /\ \E j \in 1..Len(nearest) : nearest[j] >= 0

----------------------------------------------------------------------------
\* Claims about split_and_download

SelectEnded == dpc \in {"returned", "ValueError"}

\* C7: for every pool whose weights sum to 1000 and every shuffle outcome,
\* split_and_download(pool, 0.5) with its buffer of 200 returns a subset whose
\* total weight lies in [300, 700].
C7_HalfOfThousandWithinBuffer ==
    (SelectEnded /\ total_size = 1000 /\ percentage_split = <<1, 2>>) =>
        /\ dpc = "returned"
        /\ 300 <= downloaded_size
        /\ downloaded_size <= 700

\* C8: when the main loop ends with the accumulated weight below
\* target_size - buffer and unselected items remain, split_and_download does not
\* raise: it runs the smallest-first fallback and returns the items selected.
C8_InfeasibleReturnsBestEffort ==
    dpc # "ValueError"

\* C9: split_and_download terminates for every pool of non-negative weights,
\* every target fraction and every sequence of shuffle outcomes; a full pass
\* that selects no item ends the main loop, also when unselected items remain.
C9_Terminates ==
    /\ <>SelectEnded
    /\ [][(dpc = "scan" /\ pos = Len(links_and_sizes) /\ ~downloaded)
            => dpc' = "fallback"]_vars

\* C9 witness: the main loop was left after a pass that selected nothing while
\* every remaining item is too large to fit
C9_Witness ==
    /\ dpc = "fallback"
    /\ ~downloaded
    /\ pos = Len(links_and_sizes)
    /\ BelowTarget(downloaded_size)
    /\ RemainingLinks # <<>>
    /\ \A k \in 1..Len(RemainingLinks) :
          OverTarget(downloaded_size, RemainingLinks[k][2])

\* the links of a list of files
LinkSet(fs) == {fs[i] : i \in 1..Len(fs)}

\* the (link, size) entries of the pool whose link is in L, in pool order
Entries(L) == SelectSeq(links_and_sizes, LAMBDA e : e[1] \in L)

\* accumulated weight when the main loop was left
MainSize == SumSizes(Entries(LinkSet(main_files)))

\* the entries not selected by the main loop
LeftByMain ==
    Entries({links_and_sizes[i][1] : i \in 1..Len(links_and_sizes)} \ LinkSet(main_files))

\* list.sort(key=size): stable, ascending
RECURSIVE InsertBySize(_, _)
InsertBySize(e, sorted) ==
    IF sorted = <<>> THEN <<e>>
    ELSE IF e[2] < sorted[1][2] THEN <<e>> \o sorted
    ELSE <<sorted[1]>> \o InsertBySize(e, Tail(sorted))

RECURSIVE SortBySize(_)
SortBySize(pool) ==
    IF pool = <<>> THEN <<>>
    ELSE InsertBySize(pool[Len(pool)], SortBySize(SubSeq(pool, 1, Len(pool) - 1)))

\* the links added while accumulated + weight <= target_size + buffer_size,
\* stopping at the first item that would exceed it
RECURSIVE FittingPrefix(_, _)
FittingPrefix(pool, acc) ==
    IF pool = <<>> THEN <<>>
    ELSE IF (acc + pool[1][2]) * percentage_split[2] >
               total_size * percentage_split[1] + buffer_size * percentage_split[2]
    THEN <<>>
    ELSE <<pool[1][1]>> \o FittingPrefix(Tail(pool), acc + pool[1][2])

\* C24: when the main loop ends with the accumulated weight below
\* target_size - buffer, the fallback orders the remaining items by ascending
\* weight and adds them while accumulated + weight <= target_size + buffer,
\* stopping at the first item that would exceed it: the call returns the main
\* loop's items followed by exactly that smallest-first prefix.
C24_FallbackAddsSmallestFirstPrefix ==
    (SelectEnded /\ BelowTarget(MainSize)) =>
        /\ dpc = "returned"
        /\ files = main_files \o FittingPrefix(SortBySize(LeftByMain), MainSize)

\* C25: while the main loop runs the accumulated weight never exceeds
\* target_size, and the weight of a returned subset never exceeds
\* target_size + buffer.
C25_NeverOverTargetNorOverBuffer ==
    /\ dpc \in {"while", "scan", "fallback"} =>
          downloaded_size * percentage_split[2] <= total_size * percentage_split[1]
    /\ dpc = "returned" =>
          SumSizes(Entries(LinkSet(files))) * percentage_split[2] <=
              total_size * percentage_split[1] + buffer_size * percentage_split[2]

\* a returned non-empty subset with an item passed over because it would
\* have exceeded target_size
C25_Witness ==
    /\ dpc = "returned"
    /\ downloaded_size > 0
    /\ skipped # {}
    /\ \E i \in 1..Len(links_and_sizes) :
          /\ links_and_sizes[i][1] \notin used_links
          /\ (downloaded_size + links_and_sizes[i][2]) * percentage_split[2] >
                total_size * percentage_split[1]

\* s is a prefix of t
IsPrefix(s, t) == Len(s) <= Len(t) /\ SubSeq(t, 1, Len(s)) = s

\* C26: the selected set only grows and no item is selected (downloaded)
\* twice; at every point the accumulated weight is the sum of the weights of
\* the selected items and the list of files has one entry per selected item.
C26_SelectedOnceAndAccounted ==
    /\ [](/\ downloaded_size = SumSizes(Entries(used_links))
          /\ Len(files) = Cardinality(used_links)
          /\ LinkSet(files) = used_links
          /\ \A i \in 1..Len(files) : \A j \in 1..Len(files) :
                files[i] = files[j] => i = j)
    /\ [][used_links \subseteq used_links' /\ IsPrefix(files, files')]_vars

\* a second pass has scanned again the items the first pass selected
C26_Witness ==
    /\ passes = 2
    /\ dpc = "scan"
    /\ pos = Len(links_and_sizes)
    /\ Cardinality(used_links) >= 2
    /\ Cardinality(used_links) < Len(links_and_sizes)

\* C28: an item passed over in a pass because it would exceed target_size is
\* never selected afterwards; only the first pass selects, so the main loop
\* runs at most two passes.
C28_OnlyFirstPassSelects ==
    /\ skipped \cap used_links = {}
    /\ passes <= 2
    /\ (passes = 2 /\ dpc = "scan") => ~downloaded
    /\ passes = 2 => LinkSet(files) \cap skipped = {}

\* a second pass that selected nothing has ended, after a first pass that
\* selected one item and passed over another
C28_Witness ==
    /\ passes = 2
    /\ dpc = "fallback"
    /\ ~downloaded
    /\ skipped # {}
    /\ used_links # {}

----------------------------------------------------------------------------
\* Claims about the partition balancer

\* paths listed in the manifests, with repetitions
RECURSIVE Concat(_)
Concat(ss) == IF ss = <<>> THEN <<>> ELSE ss[1] \o Concat(Tail(ss))

ManifestPaths == Concat(manifests)

DisjointCover ==
    /\ Len(manifests) = num
    /\ Len(ManifestPaths) = Len(folder_sizes)
    /\ \A a, b \in 1..Len(ManifestPaths) :
          ManifestPaths[a] = ManifestPaths[b] => a = b
    /\ \A a \in 1..Len(ManifestPaths) : ManifestPaths[a] \in 1..Len(folder_sizes)

BalanceEnded == bpc \in {"done", "ValueError"}

\* C10 (as stated): for every list of files and every partition count n the
\* balancer produces exactly n partitions whose member counts sum to the number
\* of input files, no file appearing in more than one partition.
C10_DisjointCoverEveryN ==
    BalanceEnded => (bpc = "done" /\ DisjointCover)

\* C10 (amended): the same for every partition count n >= 1 (and for n = 0 when
\* there is no input file); with n = 0 and at least one file the balancer
\* raises ValueError and produces nothing.
C10_DisjointCoverPositiveN ==
    BalanceEnded =>
        /\ bpc = "done" <=> (num >= 1 \/ Len(folder_sizes) = 0)
        /\ bpc = "done" => DisjointCover

\* C10 witness: files spread over several partitions, one holding two or more
C10_Witness ==
    /\ bpc = "done"
    /\ num >= 2
    /\ Len(folder_sizes) > num
    /\ \A i \in 1..num : manifests[i] # <<>>

\* loads of the partitions, and the largest of them
PartSizes == {parts[i].size : i \in 1..Len(parts)}

MaxPartSize == SetMax(PartSizes)

\* ascending sort of a tuple of loads (loads are compared up to permutation)
RECURSIVE InsertAsc(_, _)
InsertAsc(sorted, x) ==
    IF sorted = <<>> THEN <<x>>
    ELSE IF sorted[1] <= x
         THEN <<sorted[1]>> \o InsertAsc(Tail(sorted), x)
         ELSE <<x>> \o sorted

RECURSIVE SortAsc(_)
SortAsc(l) == IF l = <<>> THEN <<>> ELSE InsertAsc(SortAsc(Tail(l)), l[1])

\* every tuple of n partition loads some assignment of the first k weights produces
RECURSIVE AssignmentLoads(_, _, _)
AssignmentLoads(sizes, k, n) ==
    IF k = 0
    THEN {[i \in 1..n |-> 0]}
    ELSE {SortAsc([l EXCEPT ![i] = @ + sizes[k]]) :
            l \in AssignmentLoads(sizes, k - 1, n), i \in 1..n}

\* OPT: the least, over all assignments, of the largest partition load
OptMakespan(sizes, n) ==
    LET tops == {l[n] : l \in AssignmentLoads(sizes, Len(sizes), n)}
    IN  CHOOSE t \in tops : \A u \in tops : t <= u

\* C11: for every list of non-negative weights and every n >= 1 the largest
\* partition weight is at most (4/3 - 1/(3n)) times the optimal makespan:
\* 3 * n * max_partition_weight <= (4 * n - 1) * OPT.
C11_LptBound ==
    (bpc = "done" /\ num >= 1) =>
        3 * num * MaxPartSize <= (4 * num - 1) * OptMakespan(folder_sizes, num)

\* C11 witness: a finished run in which the greedy result is strictly worse
\* than the optimum, so the factor is what keeps the bound
C11_Witness ==
    /\ bpc = "done"
    /\ num >= 2
    /\ MaxPartSize > OptMakespan(folder_sizes, num)

\* position in all_files of the file with the given path
PositionOf(path) == CHOOSE k \in 1..Len(all_files) : all_files[k].path = path

\* the step assigns file f to partition i and to no other
AssignsTo(i, f) ==
    /\ parts'[i].files = Append(parts[i].files, f)
    /\ \A j \in 1..Len(parts) : j # i => parts'[j] = parts[j]

\* C27: the balancer processes the items in non-increasing weight order and
\* assigns each to a partition of minimal accumulated weight at that moment,
\* the lowest index among ties; each manifest lists its members in
\* assignment order, which is non-increasing weight order.
C27_GreedyOrderAndLowestIndexTie ==
    /\ [](bpc \in {"assign", "done"} =>
            /\ \A k \in 1..(Len(all_files) - 1) :
                  all_files[k].size >= all_files[k + 1].size
            /\ \A i \in 1..Len(parts) : \A k \in 1..(Len(parts[i].files) - 1) :
                  /\ PositionOf(parts[i].files[k].path) <
                        PositionOf(parts[i].files[k + 1].path)
                  /\ parts[i].files[k].size >= parts[i].files[k + 1].size
            /\ bpc = "done" =>
                  \A i \in 1..Len(parts) :
                      /\ Len(manifests[i]) = Len(parts[i].files)
                      /\ \A k \in 1..Len(manifests[i]) :
                            manifests[i][k] = parts[i].files[k].path
                      /\ \A k \in 1..(Len(manifests[i]) - 1) :
                            folder_sizes[manifests[i][k]] >=
                                folder_sizes[manifests[i][k + 1]])
    /\ [][(bpc = "assign" /\ next_file' = next_file + 1) =>
            \E i \in 1..Len(parts) :
                /\ AssignsTo(i, all_files[next_file + 1])
                /\ \A j \in 1..Len(parts) : parts[i].size <= parts[j].size
                /\ \A j \in 1..(i - 1) : parts[j].size > parts[i].size]_vars

\* manifests written after a tie between partitions of unequal index was
\* broken, one manifest listing files of different sizes
C27_Witness ==
    /\ bpc = "done"
    /\ num >= 2
    /\ Len(all_files) > num
    /\ \E i \in 1..num : \E k \in 1..(Len(manifests[i]) - 1) :
          folder_sizes[manifests[i][k]] > folder_sizes[manifests[i][k + 1]]
    /\ \E i \in 1..num : \E j \in 1..num : i < j /\ parts[i].size = parts[j].size

RECURSIVE SumFileSizes(_)
SumFileSizes(fs) == IF fs = <<>> THEN 0 ELSE fs[1].size + SumFileSizes(Tail(fs))

\* the largest item weight (0 when there is no item)
LargestWeight == SetMax({0} \cup {folder_sizes[k] : k \in 1..Len(folder_sizes)})

\* C29: with n >= 1 partitions and non-negative weights, after every
\* assignment step the size of each partition is the sum of the sizes of its
\* members, and the largest and the smallest partition size differ by at most
\* the largest item weight.
C29_SizesAccountedAndBalanced ==
    (bpc \in {"assign", "done"} /\ num >= 1) =>
        /\ \A i \in 1..Len(parts) : parts[i].size = SumFileSizes(parts[i].files)
        /\ SetMax(PartSizes) - SetMin(PartSizes) <= LargestWeight

\* all files assigned to two or more partitions that end with different
\* sizes, one of them holding two or more files
C29_Witness ==
    /\ bpc = "assign"
    /\ next_file = Len(all_files)
    /\ num >= 2
    /\ SetMax(PartSizes) > SetMin(PartSizes)
    /\ \E i \in 1..num : Len(parts[i].files) >= 2 /\ parts[i].size > 0

----------------------------------------------------------------------------
\* Claims about the conversion orchestrator

\* C16: main returns only after every submitted task has completed, and when
\* a task failed it surfaces the failure instead of completing normally.
C16_ReturnsAfterAllAndSurfacesFailure ==
    opc = "returned" =>
        /\ Len(res) = n_folders
        /\ \A i \in 1..Len(res) : Completed(res[i])
        /\ \A i \in 1..Len(res) : res[i] # "failed"

----------------------------------------------------------------------------
\* Claims about SQLSampler.sample in worker processes

\* C17: every sample() call opens a connection of its own and closes it before
\* it returns or raises: an open connection always belongs to a call still in
\* progress, no connection is used by two calls, the sampler's fields stay as
\* constructed, and sample(i) returns the same address whatever calls were
\* made before it.
C17_ConnectionPerCallAndStateless ==
    /\ \A c \in 1..Len(connections) :
          /\ connections[c].open =>
                 \E w \in Workers : kpc[w] # "idle" /\ db[w] = c
          /\ Cardinality(connections[c].users) = 1
    /\ \A w \in Workers : kpc[w] = "idle" => db[w] = 0
    /\ \A v, w \in Workers : (v # w /\ db[v] # 0) => db[v] # db[w]
    /\ filter_query = "valid"
    /\ start_idx = IF is_train THEN n_rows \div 2 ELSE 0
    /\ n_replays = IF is_train THEN n_rows - n_rows \div 2 ELSE n_rows \div 2
    /\ \A a, b \in answers : a[1] = b[1] => a[2] = b[2]
    /\ \A a \in answers : a[2].db_index = start_idx + a[1]

\* C17 witness: both workers are back from their calls, one call returned an
\* address and one raised inside the with block
C17_Witness ==
    /\ \A w \in Workers : kpc[w] = "idle" /\ calls[w] = MaxCalls
    /\ Len(connections) >= 3
    /\ \E w \in Workers : returned[w].status = "OperationalError"
    /\ \E w \in Workers : returned[w].status = "ok"
    /\ \A c \in 1..Len(connections) : ~connections[c].open

----------------------------------------------------------------------------
\* Claims about custom_collate

\* C19: for every batch of healthy and degraded records custom_collate raises
\* no error and returns one row per input record, in input order, every row
\* with the same keys, the keys a degraded record lacks filled with 0.
C19_CollatesEveryBatch ==
    cpc = "returned" =>
        /\ collated.status = "ok"
        /\ \A k \in DOMAIN collated.columns :
              /\ Len(collated.columns[k]) = Len(batch)
              /\ \A j \in 1..Len(batch) :
                    IF k \in DOMAIN batch[j]
                    THEN collated.columns[k][j] = batch[j][k]
                    ELSE collated.columns[k][j] = 0

----------------------------------------------------------------------------
\* Claims about the samplers

Sampled ==
    /\ sampler \in {"BasicSampler", "SQLSampler"}
    /\ spc = "ready"
    /\ result.status # "none"

\* get_split_params was called by the constructor
SplitCalled ==
    /\ sampler \in {"BasicSampler", "SQLSampler"}
    /\ spc \in {"ready", "AssertionError"}

\* C1: every BasicSampler.sample(i) with 0 <= i < len(sampler) returns
\* (shard k, local index d) with acc[k] + d = start_offset + i and 0 <= d < c[k],
\* for either split.
C1_SampleAddressesGlobalPosition ==
    (Sampled /\ sampler = "BasicSampler" /\ index < n_replays) =>
        /\ result.status = "ok"
        /\ accumulated_replays[result.file] + result.db_index = start_idx + index
        /\ 0 <= result.db_index
        /\ result.db_index < shard_sizes[result.file + 1]

\* C2: for both samplers and both splits, sample(i) with i >= len(sampler)
\* fails with an IndexError instead of returning an address.
C2_OutOfRangeIsIndexError ==
    (Sampled /\ index >= n_replays) => result.status = "IndexError"

\* C3 (as stated): get_split_params returns a length > 0 for every ratio in (0,1),
\* every total_count >= 2 and both values of is_train.
C3_SplitNonEmptyFromTwo ==
    (SplitCalled /\ DatasetSize >= 2) =>
        (spc = "ready" /\ n_replays > 0)

\* C3 (amended): get_split_params returns a length > 0 when is_train and
\* total_count >= 1, and when not is_train exactly if total_count * train_ratio >= 1;
\* in every other case the split is empty and it raises the assertion failure.
C3_SplitNonEmptyIffRoom ==
    SplitCalled =>
        /\ spc = "ready" <=>
               IF is_train
               THEN DatasetSize >= 1
               ELSE DatasetSize * train_ratio[1] >= train_ratio[2]
        /\ spc = "ready" => n_replays > 0

\* C3 witnesses: a test split that is empty although total_count >= 2 raises,
\* and a train split over the same kind of dataset is returned non-empty.
C3_Witness ==
    /\ SplitCalled
    /\ spc = "AssertionError"
    /\ DatasetSize >= 2
    /\ ~is_train

\* the samplers that resolve a global index through upper_bound
Resolved ==
    /\ sampler \in {"BasicSampler", "SC2Replay"}
    /\ spc = "ready"
    /\ result.status # "none"

\* the global index handed to upper_bound by the last call
GlobalIndex == IF sampler = "BasicSampler" THEN start_idx + index ELSE index

LastAcc == accumulated_replays[Len(shard_sizes)]

\* C12: for every cumulative index acc and every global index g with
\* 0 <= g < acc[last], upper_bound(acc, g) is the shard k with
\* acc[k] <= g < acc[k+1], so the shard is never an empty one; SC2Replay
\* resolves the local index g - acc[k]: with counts [5,0,7], g = 5 is local
\* index 0 and g = 11 local index 6 of the third shard.
C12_UpperBoundBracketsGlobalIndex ==
    (Resolved /\ GlobalIndex < LastAcc) =>
        /\ result.status = "ok"
        /\ accumulated_replays[result.file] <= GlobalIndex
        /\ GlobalIndex < accumulated_replays[result.file + 1]
        /\ shard_sizes[result.file + 1] > 0
        /\ sampler = "SC2Replay" =>
               result.db_index = GlobalIndex - accumulated_replays[result.file]
        /\ (sampler = "SC2Replay" /\ shard_sizes = <<5, 0, 7>> /\ index = 11) =>
               (result.file = 2 /\ result.db_index = 6)

\* C12 witness: counts [5,0,7], global index 5 resolved to the third shard
\* (position 2), local index 0
C12_Witness ==
    /\ Resolved
    /\ sampler = "SC2Replay"
    /\ shard_sizes = <<5, 0, 7>>
    /\ index = 5
    /\ result.file = 2
    /\ result.db_index = 0

SplitRange(split) == split.start_idx..(split.start_idx + split.n_replays - 1)

C14_InvalidConfigurationNeverConstructed ==
    (sampler \in {"BasicSampler", "SQLSampler"} /\ spc = "ready") =>
        /\ n_replays > 0
        /\ DatasetSize > 0
        /\ filter_query # "malformed"
        /\ shard_sizes # <<>>

ItemReturned ==
    /\ sampler = "SC2Replay"
    /\ spc = "ready"
    /\ result.status = "ok"

IndexBuilt ==
    \/ sampler = "BasicSampler" /\ spc \in {"ready", "AssertionError"}
    \/ sampler = "SC2Replay" /\ spc \in {"ready", "AssertionError_Empty"}

\* C20: for m shard item counts the cumulative index has length m + 1, first
\* element 0, is non-decreasing, and its last element is the sum of the counts.
C20_CumulativeIndexShape ==
    IndexBuilt =>
        /\ DOMAIN accumulated_replays = 0..Len(shard_sizes)
        /\ accumulated_replays[0] = 0
        /\ \A k \in 1..Len(shard_sizes) :
               accumulated_replays[k - 1] <= accumulated_replays[k]
        /\ LastAcc = SumSeq(shard_sizes)

\* C20 witness: an index over several shards, one of them empty
C20_Witness ==
    /\ IndexBuilt
    /\ Len(shard_sizes) >= 3
    /\ \E k \in 1..Len(shard_sizes) : shard_sizes[k] = 0
    /\ LastAcc > 0

====
